---- MODULE Spec2Model ----
(***************************************************************************)
(* Model of the elib-api book routes: the authenticate middleware, the     *)
(* multer upload layer and the createBook / updateBook / getsingleBook     *)
(* handlers, as requests served against one record store, one asset store  *)
(* (Cloudinary) and one scratch directory.                                 *)
(*                                                                         *)
(* A handler is split only where it touches the shared record store:       *)
(* updateBook reads the record (findOne) in one step and writes it         *)
(* (findOneAndUpdate) in a later one; everything else a request does is    *)
(* on files and uploads that belong to that request alone: multer names    *)
(* every temp file afresh, so the part of scratch storage a request can    *)
(* touch is kept with the request.                                         *)
(*                                                                         *)
(* ArriveIn takes the number of requests admitted at a time; Spec admits   *)
(* one, and a slot keeps the last answered request until the next arrives. *)
(*                                                                         *)
(* The user routes (createUser, loginUser) are served against the user     *)
(* store, whose schema declares the email unique. SpecUsers runs the user  *)
(* routes two requests at a time, SpecRoutes adds DELETE /:bookId to the   *)
(* book routes, SpecSession runs book requests under the access tokens     *)
(* that registration and login have issued, and SpecConc runs the owner's  *)
(* book requests two at a time.                                            *)
(***************************************************************************)
EXTENDS Integers, FiniteSets, Sequences, TLC

\* ------------------------------------------------------------------ bounds
MaxReqs == 2

Slots == {1, 2}

\* ------------------------------------------------------------ JS values
Absent == "undefined"
Empty == ""

Users == {"u1", "u2"}
Titles == {"t1", "t2"}
Genres == {"g1", "g2"}
FileFields == {"coverImage", "file"}

DefaultAuthor == "693adf9bd0f376cedbc61efd"

\* !v is false
Truthy(v) == v # Absent /\ v # Empty

\* a ?? b
Coalesce(a, b) == IF a = Absent THEN b ELSE a

NoId == 0

\* ------------------------------------------------------- scratch storage
UploadsDir == "public/data/uploads"

\* multer's generated filename for one field of one request
TempName(no, field) == [no |-> no, field |-> field]

\* path.resolve(__dirname, "../../public/data/uploads", filename)
TempPath(name) == [dir |-> UploadsDir, name |-> name]

\* ----------------------------------------------------------- asset store
EmptyUrl == [folder |-> "", name |-> TempName(0, "")]
UndefUrl == [folder |-> Absent, name |-> TempName(0, "")]

UrlTruthy(u) == u.folder # "" /\ u.folder # Absent

\* secure_url of an upload of file `name` into `folder`
SecureUrl(folder, name) == [folder |-> folder, name |-> name]

UploadOutcomes == {"url", "nourl", "throw"}

\* what cloudinary.uploader.upload resolves to, as its secure_url
UploadResult(outcome, folder, name) ==
  IF outcome = "url" THEN SecureUrl(folder, name) ELSE UndefUrl

\* ---------------------------------------------------------- record store
ObjectId(s) == [oid |-> s]
NoAuthor == [oid |-> Absent]

NoBook == [title |-> Absent, genre |-> Absent, coverImage |-> UndefUrl,
           file |-> UndefUrl, author |-> NoAuthor]

\* bookModel.findOne({_id: id})
FindOne(store, id) == IF id \in DOMAIN store THEN store[id] ELSE NoBook

\* the schema casts the author string of a new document to an ObjectId
CastDoc(doc) == [doc EXCEPT !.author = ObjectId(doc.author)]

\* bookModel.insertOne(doc): the store after the insert under a fresh id
InsertOne(store, id, doc) ==
  [i \in DOMAIN store \cup {id} |-> IF i = id THEN CastDoc(doc) ELSE store[i]]

\* bookModel.findOneAndUpdate({_id: id}, payload): $set of the payload fields
FindOneAndUpdate(store, id, payload) ==
  IF id \in DOMAIN store
    THEN [store EXCEPT ![id] = [title |-> payload.title,
                                genre |-> payload.genre,
                                coverImage |-> payload.coverImage,
                                file |-> payload.file,
                                author |-> store[id].author]]
    ELSE store

InsertOutcomes == {"doc", "none", "throw"}
FindOutcomes == {"ok", "throw"}
UpdateOutcomes == {"ok", "throw"}

\* -------------------------------------------------------- authentication
NoHeader == <<>>
GoodToken(u) == [sig |-> "ok", sub |-> u]
BadToken == [sig |-> "bad", sub |-> "u1"]
NoSubToken == [sig |-> "ok", sub |-> Absent]
NoToken == [sig |-> Absent, sub |-> Absent]
Tokens == {GoodToken(u) : u \in Users} \cup {BadToken, NoSubToken}

\* Authorization header, already split on " "
Headers ==
  {NoHeader, <<"Bearer">>, <<"Basic", GoodToken("u1")>>}
    \cup {<<"Bearer", t>> : t \in Tokens}

\* mutant: the subject of the token is not checked
AuthStatusNoSubjectCheck(h) ==
  IF h = NoHeader THEN 401
  ELSE IF Len(h) # 2 \/ h[1] # "Bearer" THEN 401
  ELSE IF h[2].sig # "ok" THEN 401
  ELSE 0

\* the status authenticate forwards, 0 when it calls next()
AuthStatus(h) ==
  IF h = NoHeader THEN 401
  ELSE IF Len(h) # 2 \/ h[1] # "Bearer" THEN 401
  ELSE IF h[2].sig # "ok" THEN 401
  ELSE IF ~Truthy(h[2].sub) THEN 401
  ELSE 0

\* req.userId after authenticate
AuthUserId(h) == h[2].sub

\* --------------------------------------------------------------- state
VARIABLES
  slots,    \* the requests in flight, one per slot
  nreq,     \* requests accepted so far
  books,    \* record store: identifier -> book record
  nextId,   \* next identifier the record store assigns
  regs,     \* the user-route requests in flight, one per slot
  users,    \* user store: sequence of user records
  tokens    \* the access tokens issued so far

bookVars == <<slots, books, nextId>>
userVars == <<regs, users, tokens>>
vars == <<slots, nreq, books, nextId, regs, users, tokens>>

Idle ==
  [pc |-> "idle", route |-> "none", no |-> 0, header |-> NoHeader,
   bookId |-> NoId, userId |-> Absent,
   title |-> Absent, genre |-> Absent, bodyAuthor |-> Absent, files |-> {},
   temp |-> {}, book |-> NoBook, payload |-> NoBook, registered |-> {},
   upCover |-> "-", upBook |-> "-", dbWrite |-> "-", unlinkFailed |-> FALSE,
   by |-> "-", status |-> 0, respId |-> NoId, respBook |-> NoBook,
   nres |-> 0, nnext |-> 0]

IdleReg ==
  [pc |-> "idle", route |-> "none", no |-> 0, name |-> Absent,
   email |-> Absent, password |-> Absent, dbRead |-> "-", dbWrite |-> "-",
   created |-> NoId, by |-> "-", status |-> 0, token |-> NoToken,
   nres |-> 0, nnext |-> 0]

Init ==
  /\ slots = [s \in Slots |-> Idle]
  /\ nreq = 0
  /\ books = <<>>
  /\ nextId = 1
  /\ regs = [s \in Slots |-> IdleReg]
  /\ users = <<>>
  /\ tokens = {}

\* scratch storage: the temp files of the requests in the slots
Scratch == UNION {slots[s].temp : s \in Slots}

Free(s) == slots[s].pc \in {"idle", "done"}

\* next(createHttpError(status, ...))
Forward(r, by, status) ==
  [r EXCEPT !.pc = "done", !.by = by, !.status = status, !.nnext = @ + 1]

\* res.status(status).json(...)
\* mutant: the response is followed by a call of next
RespondAndForward(r, by, status, id) ==
  [r EXCEPT !.pc = "done", !.by = by, !.status = status, !.respId = id,
            !.nres = @ + 1, !.nnext = @ + 1]

Respond(r, by, status, id) ==
  [r EXCEPT !.pc = "done", !.by = by, !.status = status, !.respId = id,
            !.nres = @ + 1]

\* ------------------------------------------------------------- arrival
\* a request reaches the router: POST /, PATCH /:bookId or GET /:bookId, the
\* last two with the identifier of a record or one that no record has yet
InFlight == {t \in Slots : ~Free(t)}

Routes == {"POST", "PATCH", "GET"}

ArriveUpTo(s, routes, headers, conc, max) ==
  /\ Free(s)
  /\ \A t \in Slots : t < s => ~Free(t)
  /\ Cardinality(InFlight) < conc
  /\ nreq < max
  /\ \E route \in routes :
     \E h \in headers :
     \E id \in 0..nextId :
       /\ route = "POST" <=> id = NoId
       /\ route = "GET" => h = NoHeader
       /\ slots' = [slots EXCEPT ![s] =
            [Idle EXCEPT !.pc = IF route = "GET" THEN "handler" ELSE "auth",
                         !.route = route, !.no = nreq + 1,
                         !.header = h, !.bookId = id]]
  /\ nreq' = nreq + 1
  /\ UNCHANGED <<books, nextId>>

ArriveIn(s, routes, headers, conc) ==
  ArriveUpTo(s, routes, headers, conc, MaxReqs)

\* one request at a time
Arrive(s) == ArriveIn(s, Routes, Headers, 1)

\* authenticate middleware
Authenticate(s) ==
  LET r == slots[s] IN
  /\ r.pc = "auth"
  /\ slots' = [slots EXCEPT ![s] =
       IF AuthStatus(r.header) # 0
         THEN Forward(r, "authenticate", AuthStatus(r.header))
         ELSE [r EXCEPT !.pc = IF r.route = "DELETE" THEN "handler"
                                ELSE "multer",
                        !.userId = AuthUserId(r.header)]]
  /\ UNCHANGED <<nreq, books, nextId>>

\* upload.fields([...]): parse the multipart body, write each file to scratch
MulterIn(s, titles, genres, authors, filesets) ==
  LET r == slots[s] IN
  /\ r.pc = "multer"
  /\ \E title \in titles :
     \E genre \in genres :
     \E author \in authors :
     \E files \in filesets :
       /\ r.route = "PATCH" => author = Absent
       /\ slots' = [slots EXCEPT ![s] =
            [r EXCEPT !.pc = "handler", !.title = title, !.genre = genre,
                      !.bodyAuthor = author, !.files = files,
                      !.temp = {TempPath(TempName(r.no, f)) : f \in files}]]
  /\ UNCHANGED <<nreq, books, nextId>>

Multer(s) ==
  MulterIn(s, Titles \cup {Absent, Empty}, Genres \cup {Absent, Empty},
           {Absent, "u2"}, SUBSET FileFields)

\* mutant: the unlinks are never issued
UnlinkNothing(fs, paths, failing) == fs

\* fs.promises.unlink(p).catch(() => {}) for each p of paths: the files left,
\* when the unlink of the fields in `failing` is rejected
Unlink(fs, paths, failing) ==
  fs \ {p \in paths : p.name.field \notin failing}

\* an unlink of a file that is there was rejected
UnlinkRejected(fs, paths, failing) ==
  \E p \in paths \cap fs : p.name.field \in failing

\* ----------------------------------------------------------- createBook
\* mutant: the presence of the two files is not checked
CreateValidBodyOnly(r) == Truthy(r.title) /\ Truthy(r.genre)

\* lines 28-41: title, genre and both files are there
CreateValid(r) ==
  /\ Truthy(r.title)
  /\ Truthy(r.genre)
  /\ "coverImage" \in r.files
  /\ "file" \in r.files

\* mutant: only the cover's secure_url is checked
SecureUrlsOkCoverOnly(coverUrl, bookUrl) == UrlTruthy(coverUrl)

\* line 102: both uploads returned a secure_url
SecureUrlsOk(coverUrl, bookUrl) == UrlTruthy(coverUrl) /\ UrlTruthy(bookUrl)

\* mutant: the author is the fixed identifier of the earlier revision
CreateDocFixedAuthor(r, coverUrl, bookUrl) ==
  [title |-> r.title,
   author |-> DefaultAuthor,
   genre |-> r.genre,
   coverImage |-> coverUrl,
   file |-> bookUrl]

\* lines 110-116: the document handed to insertOne
CreateDoc(r, coverUrl, bookUrl) ==
  [title |-> r.title,
   author |-> Coalesce(r.userId, DefaultAuthor),
   genre |-> r.genre,
   coverImage |-> coverUrl,
   file |-> bookUrl]

\* cleanupTempFiles (lines 51-62) and the unlinks of lines 133-135
\* whether a rejected unlink escapes the cleanup: every unlink is awaited with
\* .catch(() => {}) inside a try/catch, so none does; one that did would
\* reach the handler's outer catch, which forwards 500
\* (mutant: a rejected unlink escapes)
UnlinkThrowsWhenRejected(fs, paths, failing) ==
  UnlinkRejected(fs, paths, failing)

UnlinkThrows(fs, paths, failing) == FALSE

CreateCleanup(r, failing) ==
  [r EXCEPT !.temp = Unlink(r.temp, r.registered, failing),
            !.unlinkFailed = UnlinkRejected(r.temp, r.registered, failing)]

\* the whole handler, given what the asset store, the record store and the
\* file system answer; the result is the request and the shared state after it
CreateBookRun(r0, upC, upB, ins, failing) ==
  LET coverName == TempName(r0.no, "coverImage")
      bookName == TempName(r0.no, "file")
      r == [r0 EXCEPT !.registered = {TempPath(coverName), TempPath(bookName)}]
      coverUrl == UploadResult(upC, "book-covers", coverName)
      bookUrl == UploadResult(upB, "book-files", bookName)
      same == [slot |-> r0, books |-> books, nextId |-> nextId]
      escaped(q) == UnlinkThrows(q.temp, q.registered, failing)
      failed(q, status) ==
        [same EXCEPT !.slot =
           Forward(CreateCleanup(q, failing), "createBook",
                   IF escaped(q) THEN 500 ELSE status)]
  IN
  IF ~CreateValid(r0)
    THEN [same EXCEPT !.slot = Forward(r0, "createBook", 400)]
  ELSE IF upC = "throw"
    THEN failed([r EXCEPT !.upCover = upC], 502)
  ELSE IF upB = "throw"
    THEN failed([r EXCEPT !.upCover = upC, !.upBook = upB], 502)
  ELSE LET q == [r EXCEPT !.upCover = upC, !.upBook = upB] IN
       IF ~SecureUrlsOk(coverUrl, bookUrl)
         THEN failed(q, 502)
       ELSE IF ins # "doc"
         THEN failed([q EXCEPT !.dbWrite = ins], 500)
       ELSE
         [slot |-> IF escaped(q)
                     THEN Forward(CreateCleanup([q EXCEPT !.dbWrite = ins],
                                                failing), "createBook", 500)
                     ELSE Respond(CreateCleanup([q EXCEPT !.dbWrite = ins],
                                                failing),
                                  "createBook", 201, nextId),
          books |-> InsertOne(books, nextId, CreateDoc(r, coverUrl, bookUrl)),
          nextId |-> nextId + 1]

\* the answers drawn for a run: a call that is not made gets no answer (the
\* first of its outcomes stands in), an unlink fails only on a file that is there
CreateDraws(r, upC, upB, ins, failing) ==
  /\ ~CreateValid(r) => upC = "url" /\ failing = {}
  /\ upC = "throw" => upB = "url"
  /\ "throw" \in {upC, upB} \/ "nourl" \in {upC, upB} => ins = "doc"
  /\ failing \subseteq r.files

CreateBook(s) ==
  LET r == slots[s] IN
  /\ r.pc = "handler"
  /\ r.route = "POST"
  /\ \E upC \in UploadOutcomes, upB \in UploadOutcomes :
     \E ins \in InsertOutcomes :
     \E failing \in SUBSET FileFields :
       LET out == CreateBookRun(r, upC, upB, ins, failing) IN
       /\ CreateDraws(r, upC, upB, ins, failing)
       /\ slots' = [slots EXCEPT ![s] = out.slot]
       /\ books' = out.books
       /\ nextId' = out.nextId
  /\ UNCHANGED nreq

\* ----------------------------------------------------------- updateBook
\* lines 165-186: the id check, findOne and the not-found check
UpdateBookFindRun(r, fo) ==
  IF r.bookId = NoId
    THEN Forward(r, "updateBook", 400)
  ELSE IF fo = "throw"
    THEN Forward(r, "updateBook", 500)
  ELSE IF FindOne(books, r.bookId) = NoBook
    THEN Forward(r, "updateBook", 404)
  ELSE [r EXCEPT !.pc = "found", !.book = FindOne(books, r.bookId)]

UpdateBookFind(s) ==
  LET r == slots[s] IN
  /\ r.pc = "handler"
  /\ r.route = "PATCH"
  /\ \E fo \in FindOutcomes :
       slots' = [slots EXCEPT ![s] = UpdateBookFindRun(r, fo)]
  /\ UNCHANGED <<nreq, books, nextId>>

\* mutant: the author is read as a populated document that has no _id
BookAuthorIdUnpopulated(book) == Absent

\* line 195: the stored author as a string
BookAuthorId(book) == book.author.oid

\* mutant: the ownership comparison is dropped
IsOwnerAnyone(r, book) == TRUE

\* line 197
IsOwner(r, book) == BookAuthorId(book) = r.userId

\* mutant: the URLs of this request are written without the fallback
UpdatePayloadNoFallback(r, book, coverImageUrl, bookFileUrl) ==
  [title |-> Coalesce(r.title, book.title),
   genre |-> Coalesce(r.genre, book.genre),
   coverImage |-> coverImageUrl,
   file |-> bookFileUrl,
   author |-> book.author]

\* lines 265-270
UpdatePayload(r, book, coverImageUrl, bookFileUrl) ==
  [title |-> Coalesce(r.title, book.title),
   genre |-> Coalesce(r.genre, book.genre),
   coverImage |-> IF UrlTruthy(coverImageUrl) THEN coverImageUrl
                  ELSE book.coverImage,
   file |-> IF UrlTruthy(bookFileUrl) THEN bookFileUrl ELSE book.file,
   author |-> book.author]

\* lines 188-308, from the ownership check to the response
UpdateBookRun(r, upC, upB, upd, failing) ==
  LET book == r.book
      coverName == TempName(r.no, "coverImage")
      bookName == TempName(r.no, "file")
      hasC == "coverImage" \in r.files
      hasB == "file" \in r.files
      paths1 == IF hasC THEN {TempPath(coverName)} ELSE {}
      paths2 == paths1 \cup (IF hasB THEN {TempPath(bookName)} ELSE {})
      coverImageUrl ==
        IF hasC THEN UploadResult(upC, "book-covers", coverName) ELSE EmptyUrl
      bookFileUrl ==
        IF hasB THEN UploadResult(upB, "book-files", bookName) ELSE EmptyUrl
      payload == UpdatePayload(r, book, coverImageUrl, bookFileUrl)
      same == [slot |-> r, books |-> books]
      \* await Promise.all(uploadedTempPaths.map(p => tryUnlink(p)))
      cleaned(q, paths) ==
        [q EXCEPT !.registered = paths,
                  !.temp = Unlink(r.temp, paths, failing),
                  !.unlinkFailed = UnlinkRejected(r.temp, paths, failing)]
      escaped(paths) == UnlinkThrows(r.temp, paths, failing)
      failed(q, paths, status) ==
        [same EXCEPT !.slot =
           Forward(cleaned(q, paths), "updateBook",
                   IF escaped(paths) THEN 500 ELSE status)]
      q1 == [r EXCEPT !.upCover = IF hasC THEN upC ELSE "-"]
      q2 == [q1 EXCEPT !.upBook = IF hasB THEN upB ELSE "-"]
  IN
  IF ~Truthy(r.userId)
    THEN [same EXCEPT !.slot = Forward(r, "updateBook", 401)]
  ELSE IF ~IsOwner(r, book)
    THEN [same EXCEPT !.slot = Forward(r, "updateBook", 403)]
  ELSE IF hasC /\ upC = "throw"
    THEN failed(q1, paths1, 502)
  ELSE IF hasB /\ upB = "throw"
    THEN failed(q2, paths2, 502)
  ELSE IF upd = "throw"
    THEN failed([q2 EXCEPT !.dbWrite = "throw", !.payload = payload],
                paths2, 500)
  ELSE IF r.bookId \notin DOMAIN books
    THEN failed([q2 EXCEPT !.dbWrite = "null", !.payload = payload],
                paths2, 500)
  ELSE
    [slot |-> IF escaped(paths2)
                THEN Forward(cleaned([q2 EXCEPT !.dbWrite = "ok",
                                                !.payload = payload], paths2),
                             "updateBook", 500)
                ELSE Respond(cleaned([q2 EXCEPT !.dbWrite = "ok",
                                                !.payload = payload], paths2),
                             "updateBook", 200, r.bookId),
     books |-> FindOneAndUpdate(books, r.bookId, payload)]

\* the answers drawn for a run, as for createBook
UpdateDraws(r, upC, upB, upd, failing) ==
  /\ "coverImage" \notin r.files => upC = "url"
  /\ "file" \notin r.files \/ upC = "throw" => upB = "url"
  /\ "throw" \in {upC, upB} => upd = "ok"
  /\ failing \subseteq r.files

UpdateBookApply(s) ==
  LET r == slots[s] IN
  /\ r.pc = "found"
  /\ \E upC \in UploadOutcomes, upB \in UploadOutcomes :
     \E upd \in UpdateOutcomes :
     \E failing \in SUBSET FileFields :
       LET out == UpdateBookRun(r, upC, upB, upd, failing) IN
       /\ UpdateDraws(r, upC, upB, upd, failing)
       /\ slots' = [slots EXCEPT ![s] = out.slot]
       /\ books' = out.books
  /\ UNCHANGED <<nreq, nextId>>

\* -------------------------------------------------------- getsingleBook
\* lines 326-344
GetSingleBookRun(r, fo) ==
  IF r.bookId = NoId
    THEN Forward(r, "getsingleBook", 401)
  ELSE IF fo = "throw"
    THEN Forward(r, "getsingleBook", 401)
  ELSE IF FindOne(books, r.bookId) = NoBook
    THEN Forward(r, "getsingleBook", 401)
  ELSE [Respond(r, "getsingleBook", 200, NoId)
          EXCEPT !.respBook = FindOne(books, r.bookId)]

GetSingleBook(s) ==
  LET r == slots[s] IN
  /\ r.pc = "handler"
  /\ r.route = "GET"
  /\ \E fo \in FindOutcomes :
       slots' = [slots EXCEPT ![s] = GetSingleBookRun(r, fo)]
  /\ UNCHANGED <<nreq, books, nextId>>

\* ------------------------------------------------------------ deleteBook
\* bookModel delete-by-id
DeleteOne(store, id) == [i \in DOMAIN store \ {id} |-> store[i]]

\* the deletion workflow: the record must exist, the caller must be present
\* and equal the record's author, then the record is removed
DeleteBookRun(r, store) ==
  LET book == FindOne(store, r.bookId) IN
  IF book = NoBook
    THEN [slot |-> Forward(r, "deleteBook", 404), books |-> store]
  ELSE IF ~Truthy(r.userId)
    THEN [slot |-> Forward(r, "deleteBook", 401), books |-> store]
  ELSE IF ~IsOwner(r, book)
    THEN [slot |-> Forward([r EXCEPT !.book = book], "deleteBook", 403),
          books |-> store]
  ELSE [slot |-> Respond([r EXCEPT !.book = book, !.dbWrite = "deleted"],
                         "deleteBook", 200, r.bookId),
        books |-> DeleteOne(store, r.bookId)]

DeleteBook(s) ==
  LET r == slots[s]
      run == DeleteBookRun(r, books)
  IN  /\ r.pc = "handler"
      /\ r.route = "DELETE"
      /\ slots' = [slots EXCEPT ![s] = run.slot]
      /\ books' = run.books
      /\ UNCHANGED <<nreq, nextId>>

MutatingRoutes == {"POST", "PATCH", "DELETE"}

ArriveRoutes(s) == ArriveIn(s, Routes \cup MutatingRoutes, Headers, 1)

\* ------------------------------------------------------------ user store
Names == {"n1"}
Emails == {"e1", "e2"}
Passwords == {"p1", "p2"}

\* the _id values the user store assigns, in the order it assigns them
UserOids == <<"u1", "u2", "u3", "u4", "u5">>

\* bcrypt.hash(password, 10)
Hash(p) == [rounds |-> 10, of |-> p]
NoHash == [rounds |-> 0, of |-> Absent]

\* bcrypt.compare(password, hash)
Compare(p, h) == h.of = p

NoUser == [id |-> NoAuthor, name |-> Absent, email |-> Absent,
           password |-> NoHash]

\* userModel.findOne({email})
FindUser(store, email) ==
  IF \E i \in DOMAIN store : store[i].email = email
    THEN store[CHOOSE i \in DOMAIN store : store[i].email = email]
    ELSE NoUser

\* the unique index on email rejects a second document with a stored email
DuplicateKey(store, doc) == \E i \in DOMAIN store : store[i].email = doc.email

\* userModel.insertOne(doc): the store after the insert under a fresh _id
InsertUser(store, doc) ==
  Append(store, [id |-> ObjectId(UserOids[Len(store) + 1]), name |-> doc.name,
                 email |-> doc.email, password |-> doc.password])

UserInsertOutcomes == {"doc", "throw"}
CompareOutcomes == {"ok", "throw"}

\* jwt.sign({sub: _id}, secret): the payload carries the _id as its hex string
JwtSign(id) == [sig |-> "ok", sub |-> id.oid]

\* res.status(status).json({msg, accessToken})
RespondToken(r, by, status, token) ==
  [r EXCEPT !.pc = "done", !.by = by, !.status = status, !.token = token,
            !.nres = @ + 1]

\* ----------------------------------------------------------- user routes
FreeReg(s) == regs[s].pc \in {"idle", "done"}

RegsInFlight == {t \in Slots : ~FreeReg(t)}

UserRoutes == {"register", "login"}

\* a request reaches the user router: POST /register or POST /login
UserArriveIn(s, routes, names, emails, passwords, conc, max) ==
  /\ FreeReg(s)
  /\ \A t \in Slots : t < s => ~FreeReg(t)
  /\ Cardinality(RegsInFlight) < conc
  /\ nreq < max
  /\ \E route \in routes :
     \E name \in names :
     \E email \in emails :
     \E password \in passwords :
       /\ route = "login" => name = Absent
       /\ regs' = [regs EXCEPT ![s] =
            [IdleReg EXCEPT !.pc = "find", !.route = route, !.no = nreq + 1,
                            !.name = name, !.email = email,
                            !.password = password]]
  /\ nreq' = nreq + 1
  /\ UNCHANGED <<bookVars, users, tokens>>

UserArrive(s) ==
  UserArriveIn(s, UserRoutes, Names \cup {Absent}, Emails \cup {Absent, Empty},
               Passwords \cup {Absent}, 2, MaxReqs)

\* createUser up to its findOne
CreateUserFindRun(r, store, fo) ==
  IF ~Truthy(r.name) \/ ~Truthy(r.email) \/ ~Truthy(r.password)
    THEN Forward(r, "createUser", 400)
  ELSE IF fo = "throw"
    THEN Forward([r EXCEPT !.dbRead = "throw"], "createUser", 500)
  ELSE IF FindUser(store, r.email) # NoUser
    THEN Forward([r EXCEPT !.dbRead = "found"], "createUser", 400)
  ELSE [r EXCEPT !.pc = "insert", !.dbRead = "none"]

CreateUserFind(s) ==
  LET r == regs[s] IN
  /\ r.pc = "find"
  /\ r.route = "register"
  /\ \E fo \in FindOutcomes :
       /\ ~Truthy(r.name) \/ ~Truthy(r.email) \/ ~Truthy(r.password)
            => fo = "ok"
       /\ regs' = [regs EXCEPT ![s] = CreateUserFindRun(r, users, fo)]
  /\ UNCHANGED <<bookVars, nreq, users, tokens>>

\* createUser from bcrypt.hash to the response
CreateUserInsertRun(r, store, ins) ==
  LET doc == [name |-> r.name, email |-> r.email,
              password |-> Hash(r.password)]
      after == InsertUser(store, doc)
  IN  IF ins = "throw"
        THEN [reg |-> Forward([r EXCEPT !.dbWrite = "throw"],
                              "createUser", 500),
              users |-> store]
      ELSE IF DuplicateKey(store, doc)
        THEN [reg |-> Forward([r EXCEPT !.dbWrite = "duplicate"],
                              "createUser", 500),
              users |-> store]
      ELSE [reg |-> RespondToken([r EXCEPT !.dbWrite = "doc",
                                           !.created = Len(after)],
                                 "createUser", 201,
                                 JwtSign(after[Len(after)].id)),
            users |-> after]

CreateUserInsert(s) ==
  LET r == regs[s] IN
  /\ r.pc = "insert"
  /\ \E ins \in UserInsertOutcomes :
       LET run == CreateUserInsertRun(r, users, ins) IN
       /\ regs' = [regs EXCEPT ![s] = run.reg]
       /\ users' = run.users
       /\ tokens' = IF run.reg.token = NoToken THEN tokens
                    ELSE tokens \cup {run.reg.token}
  /\ UNCHANGED <<bookVars, nreq>>

\* loginUser; a rejected findOne is outside every try block: the handler
\* then neither responds nor calls next
LoginUserRun(r, store, fo, cmp) ==
  LET userExist == FindUser(store, r.email) IN
  IF ~Truthy(r.email) \/ ~Truthy(r.password)
    THEN Forward(r, "loginUser", 401)
  ELSE IF fo = "throw"
    THEN [r EXCEPT !.pc = "done", !.by = "loginUser", !.dbRead = "throw"]
  ELSE IF userExist = NoUser
    THEN Forward([r EXCEPT !.dbRead = "none"], "loginUser", 404)
  ELSE IF cmp = "throw"
    THEN Forward([r EXCEPT !.dbRead = "found"], "loginUser", 500)
  ELSE IF ~Compare(r.password, userExist.password)
    THEN Forward([r EXCEPT !.dbRead = "found"], "loginUser", 401)
  ELSE RespondToken([r EXCEPT !.dbRead = "found"], "loginUser", 201,
                    JwtSign(userExist.id))

LoginUser(s) ==
  LET r == regs[s] IN
  /\ r.pc = "find"
  /\ r.route = "login"
  /\ \E fo \in FindOutcomes :
     \E cmp \in CompareOutcomes :
       LET after == LoginUserRun(r, users, fo, cmp) IN
       /\ ~Truthy(r.email) \/ ~Truthy(r.password) => fo = "ok"
       /\ fo = "throw" \/ FindUser(users, r.email) = NoUser
            \/ ~Truthy(r.email) \/ ~Truthy(r.password) => cmp = "ok"
       /\ regs' = [regs EXCEPT ![s] = after]
       /\ tokens' = IF after.token = NoToken THEN tokens
                    ELSE tokens \cup {after.token}
  /\ UNCHANGED <<bookVars, nreq, users>>

\* ------------------------------------------------------- specification
Next ==
  \E s \in Slots :
    \/ Arrive(s) /\ UNCHANGED userVars
    \/ Authenticate(s) /\ UNCHANGED userVars
    \/ Multer(s) /\ UNCHANGED userVars
    \/ CreateBook(s) /\ UNCHANGED userVars
    \/ UpdateBookFind(s) /\ UNCHANGED userVars
    \/ UpdateBookApply(s) /\ UNCHANGED userVars
    \/ GetSingleBook(s) /\ UNCHANGED userVars

Spec == Init /\ [][Next]_vars

\* the book routes with DELETE /:bookId, one request at a time
NextRoutes ==
  \E s \in Slots :
    \/ ArriveRoutes(s) /\ UNCHANGED userVars
    \/ Authenticate(s) /\ UNCHANGED userVars
    \/ Multer(s) /\ UNCHANGED userVars
    \/ CreateBook(s) /\ UNCHANGED userVars
    \/ UpdateBookFind(s) /\ UNCHANGED userVars
    \/ UpdateBookApply(s) /\ UNCHANGED userVars
    \/ GetSingleBook(s) /\ UNCHANGED userVars
    \/ DeleteBook(s) /\ UNCHANGED userVars

SpecRoutes == Init /\ [][NextRoutes]_vars

\* a session: users register and log in, and the book routes are called with
\* the tokens issued so far, one request at a time
SessionMax == MaxReqs + 2

SessionHeaders == {<<"Bearer", t>> : t \in tokens}

SessionUserArrive(s) ==
  UserArriveIn(s, UserRoutes, Names \cup {Absent}, Emails, {"p1"}, 1,
               SessionMax)

SessionArrive(s) ==
  ArriveUpTo(s, {"POST", "PATCH"}, SessionHeaders, 1, SessionMax)

\* a create carries t1, g1 and both files; an update may carry t2 or g2
SessionMulter(s) ==
  IF slots[s].route = "POST"
    THEN MulterIn(s, {"t1"}, {"g1"}, {Absent}, {FileFields})
    ELSE MulterIn(s, {Absent, "t2"}, {Absent, "g2"}, {Absent}, {{}})

NextSession ==
  \E s \in Slots :
    \/ SessionUserArrive(s)
    \/ CreateUserFind(s)
    \/ CreateUserInsert(s)
    \/ LoginUser(s)
    \/ SessionArrive(s) /\ UNCHANGED userVars
    \/ Authenticate(s) /\ UNCHANGED userVars
    \/ SessionMulter(s) /\ UNCHANGED userVars
    \/ CreateBook(s) /\ UNCHANGED userVars
    \/ UpdateBookFind(s) /\ UNCHANGED userVars
    \/ UpdateBookApply(s) /\ UNCHANGED userVars

SpecSession == Init /\ [][NextSession]_vars

\* the owner's book requests, two at a time
ConcArrive(s) ==
  ArriveUpTo(s, {"POST", "PATCH"}, {<<"Bearer", GoodToken("u1")>>}, 2,
             MaxReqs + 1)

NextConc ==
  \E s \in Slots :
    \/ ConcArrive(s) /\ UNCHANGED userVars
    \/ Authenticate(s) /\ UNCHANGED userVars
    \/ SessionMulter(s) /\ UNCHANGED userVars
    \/ CreateBook(s) /\ UNCHANGED userVars
    \/ UpdateBookFind(s) /\ UNCHANGED userVars
    \/ UpdateBookApply(s) /\ UNCHANGED userVars

SpecConc == Init /\ [][NextConc]_vars

\* the user routes alone, two requests at a time
NextUsers ==
  \E s \in Slots :
    \/ UserArrive(s)
    \/ CreateUserFind(s)
    \/ CreateUserInsert(s)
    \/ LoginUser(s)

SpecUsers == Init /\ [][NextUsers]_vars

\* ================================================================ claims
Answered(r, by) == r.pc = "done" /\ r.by = by

CoverPath(r) == TempPath(TempName(r.no, "coverImage"))
BookPath(r) == TempPath(TempName(r.no, "file"))

\* the URL the asset store returns for the file `field` of request r
CoverUrlOf(r) == SecureUrl("book-covers", TempName(r.no, "coverImage"))
BookUrlOf(r) == SecureUrl("book-files", TempName(r.no, "file"))

\* the records of the store that carry an asset of request r
RecordsOf(r) ==
  {id \in DOMAIN books :
     books[id].coverImage.name.no = r.no \/ books[id].file.name.no = r.no}

Missing(v) == v \in {Absent, Empty}

\* a createBook request with title, genre and both files, both uploads
\* answered with a URL and the insert answered with the new document
CreateAllSucceeded(r) ==
  /\ Answered(r, "createBook")
  /\ ~Missing(r.title)
  /\ ~Missing(r.genre)
  /\ r.files = FileFields
  /\ r.upCover = "url"
  /\ r.upBook = "url"
  /\ r.dbWrite = "doc"

\* the response is 201 with the identifier of the one record of this request
CreatedOne(r) ==
  /\ r.status = 201
  /\ r.nres = 1
  /\ r.nnext = 0
  /\ RecordsOf(r) = {r.respId}
  /\ books[r.respId].coverImage = CoverUrlOf(r)
  /\ books[r.respId].file = BookUrlOf(r)
  /\ books[r.respId].title = r.title
  /\ books[r.respId].genre = r.genre

\* C1 as stated: a createBook request with title, genre and both files whose
\* uploads and insert succeed persists exactly one record, answers 201 with
\* its identifier, and both its temp files are gone from scratch storage.
C1_CreatedAndFilesGone ==
  \A s \in Slots :
    CreateAllSucceeded(slots[s]) =>
      /\ CreatedOne(slots[s])
      /\ CoverPath(slots[s]) \notin Scratch
      /\ BookPath(slots[s]) \notin Scratch

\* C1 amended: ... persists exactly one record and answers 201 with its
\* identifier; the unlink of both temp files has been attempted, and both
\* are gone from scratch storage unless an unlink was rejected.
C1_CreatedAndFilesUnlinked ==
  \A s \in Slots :
    CreateAllSucceeded(slots[s]) =>
      /\ CreatedOne(slots[s])
      /\ slots[s].registered = {CoverPath(slots[s]), BookPath(slots[s])}
      /\ ~slots[s].unlinkFailed =>
           /\ CoverPath(slots[s]) \notin Scratch
           /\ BookPath(slots[s]) \notin Scratch

C1_Witness ==
  \E s \in Slots :
    /\ CreateAllSucceeded(slots[s])
    /\ slots[s].status = 201
    /\ slots[s].respId \in DOMAIN books
    /\ ~slots[s].unlinkFailed
    /\ slots[s].temp = {}

\* C2: a createBook request that lacks title, genre, the cover image file or
\* the book file is answered by one forwarded 400, calls the asset store not
\* at all and persists no record.
C2_InvalidCreateHasNoEffect ==
  \A s \in Slots :
    LET r == slots[s] IN
    /\ Answered(r, "createBook")
    /\ \/ Missing(r.title)
       \/ Missing(r.genre)
       \/ "coverImage" \notin r.files
       \/ "file" \notin r.files
    => /\ r.status = 400
       /\ r.nnext = 1
       /\ r.nres = 0
       /\ r.upCover = "-"
       /\ r.upBook = "-"
       /\ r.dbWrite = "-"
       /\ RecordsOf(r) = {}
       /\ nextId = Cardinality(DOMAIN books) + 1

C2_Witness ==
  \E s \in Slots :
    /\ Answered(slots[s], "createBook")
    /\ slots[s].title \in Titles
    /\ slots[s].genre \in Genres
    /\ slots[s].files = {"coverImage"}
    /\ slots[s].status = 400

\* an upload issued by request r failed: it threw or, in createBook, it
\* returned no URL
UploadFailed(r) ==
  /\ \/ Answered(r, "createBook")
     \/ Answered(r, "updateBook")
  /\ \/ "throw" \in {r.upCover, r.upBook}
     \/ r.by = "createBook" /\ "nourl" \in {r.upCover, r.upBook}

\* the request answered 502 without reaching the record-store write: nothing
\* was inserted (create), the record is as it was read (update)
NoWriteAnd502(r) ==
  /\ r.status = 502
  /\ r.nnext = 1
  /\ r.nres = 0
  /\ r.dbWrite = "-"
  /\ r.by = "createBook" =>
       RecordsOf(r) = {} /\ nextId = Cardinality(DOMAIN books) + 1
  /\ r.by = "updateBook" =>
       RecordsOf(r) = {} /\ FindOne(books, r.bookId) = r.book

\* C3 as stated: when an upload of a createBook or updateBook request fails
\* (or, in createBook, returns no URL) the record-store write is not reached,
\* the request ends with 502 and every temp file it registered so far has
\* been removed.
C3_UploadFailureRemovesFiles ==
  \A s \in Slots :
    UploadFailed(slots[s]) =>
      /\ NoWriteAnd502(slots[s])
      /\ slots[s].registered \cap Scratch = {}

\* C3 amended: ... the record-store write is not reached, the request ends
\* with 502, and every temp file it registered so far has been unlinked:
\* it is gone from scratch storage unless its unlink was rejected.
C3_UploadFailureUnlinksFiles ==
  \A s \in Slots :
    UploadFailed(slots[s]) =>
      /\ NoWriteAnd502(slots[s])
      /\ slots[s].registered # {}
      /\ ~slots[s].unlinkFailed => slots[s].registered \cap Scratch = {}

\* the second upload failed after the first had returned its URL
C3_Witness ==
  \E s \in Slots :
    /\ UploadFailed(slots[s])
    /\ slots[s].upCover = "url"
    /\ slots[s].upBook \in {"throw", "nourl"}
    /\ slots[s].status = 502
    /\ ~slots[s].unlinkFailed
    /\ slots[s].temp = {}

\* a URL the asset store returns for an upload of a request's `field` file
IsAssetUrl(u, folder, field) ==
  /\ UrlTruthy(u)
  /\ u.name.no \in 1..nreq
  /\ u = SecureUrl(folder, TempName(u.name.no, field))

\* C4: in every reachable state every stored record has a coverImage and a
\* file that are both non-empty URLs returned by the asset store; no record
\* has only one of the two.
C4_RecordsCarryBothUrls ==
  \A id \in DOMAIN books :
    /\ IsAssetUrl(books[id].coverImage, "book-covers", "coverImage")
    /\ IsAssetUrl(books[id].file, "book-files", "file")

\* a record whose cover was replaced by an update that uploaded no book file
C4_Witness ==
  \E id \in DOMAIN books :
    /\ books[id].coverImage.name.no # books[id].file.name.no
    /\ \E s \in Slots :
         /\ Answered(slots[s], "updateBook")
         /\ slots[s].bookId = id
         /\ slots[s].status = 200
         /\ slots[s].upBook \in {"-", "nourl"}

\* the caller of an updateBook request is not the stored author of the record
NotTheOwner(r) ==
  /\ Answered(r, "updateBook")
  /\ r.book # NoBook
  /\ r.userId \in Users
  /\ r.book.author # ObjectId(r.userId)

\* C5: an updateBook request by a caller who is not the record's stored
\* author ends with one forwarded 403, uploads nothing, writes nothing and
\* leaves the record as it was.
C5_NonOwnerUpdateIsRefused ==
  \A s \in Slots :
    LET r == slots[s] IN
    NotTheOwner(r) =>
      /\ r.status = 403
      /\ r.nnext = 1
      /\ r.nres = 0
      /\ r.upCover = "-"
      /\ r.upBook = "-"
      /\ r.dbWrite = "-"
      /\ r.payload = NoBook
      /\ RecordsOf(r) = {}
      /\ FindOne(books, r.bookId) = r.book

C5_Witness ==
  \E s \in Slots :
    /\ NotTheOwner(slots[s])
    /\ slots[s].status = 403
    /\ slots[s].files = FileFields
    /\ slots[s].title \in Titles
    /\ slots[s].title # slots[s].book.title

\* an updateBook request of the owner that was answered 200
UpdateSucceeded(r) == Answered(r, "updateBook") /\ r.status = 200

\* C6 as stated: after a successful updateBook by the owner each of title,
\* genre, coverImage and file is the value the request supplied or uploaded
\* when there was one and the value stored before otherwise, and no field
\* has been overwritten with an empty value.
C6_UpdateKeepsOrReplaces ==
  \A s \in Slots :
    LET r == slots[s]
        now == FindOne(books, r.bookId)
    IN
    UpdateSucceeded(r) =>
      /\ now.title = (IF Missing(r.title) THEN r.book.title ELSE r.title)
      /\ now.genre = (IF Missing(r.genre) THEN r.book.genre ELSE r.genre)
      /\ now.coverImage =
           (IF r.upCover = "url" THEN CoverUrlOf(r) ELSE r.book.coverImage)
      /\ now.file = (IF r.upBook = "url" THEN BookUrlOf(r) ELSE r.book.file)
      /\ ~Missing(now.title)
      /\ ~Missing(now.genre)
      /\ UrlTruthy(now.coverImage)
      /\ UrlTruthy(now.file)

\* C7 as stated: however an updateBook request ends, every temp file the
\* HTTP layer wrote for it is gone from scratch storage when it completes.
C7_UpdateLeavesNoTempFile ==
  \A s \in Slots :
    Answered(slots[s], "updateBook") =>
      /\ CoverPath(slots[s]) \notin Scratch
      /\ BookPath(slots[s]) \notin Scratch

\* C8 as stated: however a createBook request ends, every temp file the HTTP
\* layer wrote for it is gone from scratch storage when it completes,
\* provided no unlink was rejected.
C8_CreateLeavesNoTempFile ==
  \A s \in Slots :
    Answered(slots[s], "createBook") /\ ~slots[s].unlinkFailed =>
      /\ CoverPath(slots[s]) \notin Scratch
      /\ BookPath(slots[s]) \notin Scratch

\* C9: the author of every record createBook persists is the caller identity
\* authenticate attached to the request, the subject of its token, whatever
\* the body carries.
C9_AuthorIsTheCaller ==
  /\ \A id \in DOMAIN books : books[id].author \in {ObjectId(u) : u \in Users}
  /\ \A s \in Slots :
       LET r == slots[s] IN
       Answered(r, "createBook") /\ r.status = 201 =>
         /\ r.userId = r.header[2].sub
         /\ r.userId \in Users
         /\ books[r.respId].author = ObjectId(r.userId)

\* the body named another user as author
C9_Witness ==
  \E s \in Slots :
    /\ Answered(slots[s], "createBook")
    /\ slots[s].status = 201
    /\ slots[s].bodyAuthor = "u2"
    /\ slots[s].userId = "u1"
    /\ books[slots[s].respId].author = ObjectId("u1")

\* C10 as stated: a getsingleBook for an identifier that matches no stored
\* record ends with the not-found error, 404, and returns no book.
C10_UnknownIdIs404 ==
  \A s \in Slots :
    LET r == slots[s] IN
    /\ Answered(r, "getsingleBook")
    /\ r.bookId # NoId
    /\ r.bookId \notin DOMAIN books
    => /\ r.status = 404
       /\ r.nnext = 1
       /\ r.nres = 0
       /\ r.respBook = NoBook


\* the request r sent a complete registration body
CompleteBody(r) == ~Missing(r.name) /\ ~Missing(r.email) /\ ~Missing(r.password)

\* a stored user other than the one r created holds r's email
EmailTaken(r) ==
  \E i \in DOMAIN users : users[i].email = r.email /\ i # r.created

\* C11: under every interleaving of registration requests, a registration
\* whose email belongs to a stored user is answered 400 (the store's calls
\* not failing for any other reason), and no two stored users share an email.
C11_DuplicateEmailIs400 ==
  /\ \A s \in Slots :
       LET r == regs[s] IN
       (/\ Answered(r, "createUser")
        /\ CompleteBody(r)
        /\ r.dbRead # "throw"
        /\ r.dbWrite # "throw"
        /\ EmailTaken(r))
         => r.status = 400
  /\ \A i, j \in DOMAIN users : users[i].email = users[j].email => i = j


\* the Authorization header h is missing, malformed, invalid or subject-less
BadCredential(h) ==
  \/ h = NoHeader
  \/ Len(h) # 2
  \/ h[1] # "Bearer"
  \/ h[2].sig # "ok"
  \/ Missing(h[2].sub)

\* the request r has had no effect beyond its own rejection by authenticate
RejectedUntouched(r) ==
  /\ r.pc = "done"
  /\ r.by = "authenticate"
  /\ r.status = 401
  /\ r.nnext = 1
  /\ r.nres = 0
  /\ r.files = {}
  /\ r.temp = {}
  /\ r.upCover = "-"
  /\ r.upBook = "-"
  /\ r.dbWrite = "-"
  /\ r.respId = NoId

PastAuthenticate(r) ==
  r.pc \in {"multer", "handler", "found"}
    \/ (r.pc = "done" /\ r.by # "authenticate")

\* C12: on POST /, PATCH /:bookId and DELETE /:bookId a request with a bad
\* bearer credential is rejected by authenticate with 401, before any temp
\* file, upload or store access, and the step that rejects it leaves the
\* record store as it was; the upload layer and the handler run only with
\* req.userId equal to the subject of the token.
C12_AuthenticateRunsFirst ==
  [][\A s \in Slots :
       LET r == slots'[s] IN
       r.route \in MutatingRoutes =>
         /\ (BadCredential(r.header) /\ r.pc # "auth") =>
              /\ RejectedUntouched(r)
              /\ slots[s] # r => books' = books /\ nextId' = nextId
         /\ PastAuthenticate(r) =>
              /\ ~BadCredential(r.header)
              /\ r.userId = r.header[2].sub]_vars

C12_Witness ==
  \E s \in Slots :
    /\ slots[s].route = "DELETE"
    /\ slots[s].header = <<"Bearer", NoSubToken>>
    /\ RejectedUntouched(slots[s])
    /\ books # <<>>


\* what the caller and the stores see of an answered request
Outcome(r) ==
  [by |-> r.by, status |-> r.status, id |-> r.respId, nres |-> r.nres,
   nnext |-> r.nnext, upCover |-> r.upCover, upBook |-> r.upBook,
   dbWrite |-> r.dbWrite]

\* C13: a createBook or updateBook step in which a temp-file deletion fails
\* sends the status and body, and leaves the record store, exactly as the
\* same step does from the same state and with the same answers of the asset
\* store and the record store when every deletion succeeds.
C13_UnlinkFailureKeepsOutcome ==
  [][\A s \in Slots :
       LET r == slots[s]
           q == slots'[s]
       IN  (q # r /\ q.unlinkFailed) =>
             \/ /\ q.by = "createBook"
                /\ \E upC \in UploadOutcomes, upB \in UploadOutcomes :
                   \E ins \in InsertOutcomes :
                     LET clean == CreateBookRun(r, upC, upB, ins, {}) IN
                     /\ Outcome(clean.slot) = Outcome(q)
                     /\ clean.books = books'
                     /\ clean.slot.temp = {}
             \/ /\ q.by = "updateBook"
                /\ \E upC \in UploadOutcomes, upB \in UploadOutcomes :
                   \E upd \in UpdateOutcomes :
                     LET clean == UpdateBookRun(r, upC, upB, upd, {}) IN
                     /\ Outcome(clean.slot) = Outcome(q)
                     /\ clean.books = books'
                     /\ clean.slot.temp \subseteq q.temp]_vars

C13_Witness ==
  \E s \in Slots :
    /\ Answered(slots[s], "updateBook")
    /\ slots[s].unlinkFailed
    /\ slots[s].status = 200
    /\ slots[s].upCover = "url"
    /\ slots[s].temp # {}


\* the update request r was answered 200 and supplied exactly the title
OnlyTitle(r) ==
  /\ Answered(r, "updateBook")
  /\ r.status = 200
  /\ ~Missing(r.title)
  /\ r.genre = Absent
  /\ r.files = {}

\* the update request r was answered 200 and supplied exactly the genre
OnlyGenre(r) ==
  /\ Answered(r, "updateBook")
  /\ r.status = 200
  /\ r.title = Absent
  /\ ~Missing(r.genre)
  /\ r.files = {}

\* C14: when two updateBook requests of the owner on the same record overlap,
\* one supplying only a title and the other only a genre, then once both are
\* answered 200 the stored record has the title of the one and the genre of
\* the other.
C14_DisjointUpdatesBothKept ==
  \A s, t \in Slots :
    LET a == slots[s]
        b == slots[t]
    IN  (/\ s # t
         /\ OnlyTitle(a)
         /\ OnlyGenre(b)
         /\ a.bookId = b.bookId
         /\ a.userId = b.userId
         /\ a.bookId \in DOMAIN books)
          => /\ books[a.bookId].title = a.title
             /\ books[a.bookId].genre = b.genre


\* the request in slot s is inside createBook or updateBook
InHandler(r) == r.route \in {"POST", "PATCH"} /\ r.pc \in {"handler", "found"}

\* C15: a createBook or updateBook invocation that has not answered can take
\* its next step whatever the asset store, the record store and the file
\* system answer, every such step takes it to its store write or to its
\* answer, and an answered invocation has made exactly one call: res.json
\* with a success status, or next with an error status, never both.
C15_ExactlyOneOutcome ==
  /\ [](\A s \in Slots :
          LET r == slots[s] IN
          /\ InHandler(r) =>
               /\ r.nres = 0
               /\ r.nnext = 0
               /\ ENABLED (CreateBook(s) \/ UpdateBookFind(s)
                             \/ UpdateBookApply(s))
          /\ (r.pc = "done" /\ r.by \in {"createBook", "updateBook"}) =>
               /\ r.nres + r.nnext = 1
               /\ r.nres = 1 <=> r.status \in {200, 201}
               /\ r.nnext = 1 <=> r.status \in {400, 401, 403, 404, 500, 502})
  /\ [][\A s \in Slots :
          LET r == slots[s]
              q == slots'[s]
          IN  (InHandler(r) /\ q # r) =>
                \/ r.pc = "handler" /\ r.route = "PATCH" /\ q.pc = "found"
                \/ q.pc = "done" /\ q.by \in {"createBook", "updateBook"}]_vars

C15_Witness ==
  \E s \in Slots :
    /\ Answered(slots[s], "createBook")
    /\ slots[s].dbWrite = "throw"
    /\ slots[s].unlinkFailed
    /\ slots[s].status = 500
    /\ slots[s].nnext = 1
    /\ slots[s].nres = 0


\* an updateBook of record id, by the caller of request c, that has found the
\* record and supplies nothing
UpdateBy(c, id) ==
  [Idle EXCEPT !.pc = "found", !.route = "PATCH", !.no = c.no,
               !.header = c.header, !.userId = c.userId, !.bookId = id,
               !.book = books'[id]]

\* C16: with the tokens that register and login issue, the record a
\* successful createBook stores passes the ownership check of an updateBook
\* by the same token subject, no later step changes the author of a stored
\* record, and no updateBook of a caller who is the record's stored author is
\* answered 403.
C16_CreatorIsNeverRefused ==
  [][\A s \in Slots :
       LET r == slots[s]
           q == slots'[s]
       IN  /\ (q # r /\ Answered(q, "createBook") /\ q.status = 201) =>
                /\ q.header[2] \in tokens
                /\ q.userId = q.header[2].sub
                /\ \A upd \in UpdateOutcomes :
                     UpdateBookRun(UpdateBy(q, q.respId), "url", "url", upd,
                                   {}).slot.status # 403
           /\ \A id \in DOMAIN books :
                id \in DOMAIN books' /\ books'[id].author = books[id].author
           /\ (r.pc = "found" /\ q.pc = "done"
                 /\ r.header[2] \in tokens
                 /\ r.book.author = ObjectId(r.header[2].sub)) =>
                q.status # 403]_vars

C16_Witness ==
  \E s \in Slots :
    /\ Answered(slots[s], "updateBook")
    /\ slots[s].header[2] \in tokens
    /\ slots[s].book.author = ObjectId(slots[s].header[2].sub)
    /\ slots[s].userId = "u2"
    /\ slots[s].status = 200
    /\ Len(users) = 2

====
